---- MODULE Spec2Model ----
(***************************************************************************)
(* The two scripts of fpl-price-changes as one state machine.              *)
(*                                                                         *)
(*   track_transfers.py    the collector: appends one snapshot of the API's *)
(*                         player list to fpl_transfers_log.csv             *)
(*   analyze_transfers.py  the analyzer: compares the two latest snapshots, *)
(*                         appends the top risers/fallers to                *)
(*                         fpl_predictions_log.csv and rewrites             *)
(*                         fpl_summary.csv                                  *)
(*                                                                         *)
(* A float is the record [n, d]: the rational n/d in lowest terms when     *)
(* d > 0, +inf for [1, 0], -inf for [-1, 0] and NaN for [0, 0].            *)
(* When it matters which way a float rounds, the binary64 value is worked   *)
(* out from n/d (RintHalfway).                                             *)
(* Time goes in ticks of 30 minutes.  A timestamp string is the record     *)
(* [tick]: the text "2025-08-16 HH:MM:00" of the tick.                     *)
(***************************************************************************)
EXTENDS Integers, Sequences, FiniteSets, TLC

\* ---------------------------------------------------------------- bounds
MaxClock == 2
MaxSnapshots == 2
MaxRuns == 2

\* ------------------------------------------------------ program constants
THRESHOLD == 100000
TOP_N == 10
SUMMARY_N == 20
SECONDS_PER_HOUR == 3600

\* ------------------------------------------------------------- sequences
Range(s) == {s[i] : i \in DOMAIN s}

Min(a, b) == IF a <= b THEN a ELSE b

Head_n(s, n) == SubSeq(s, 1, Min(n, Len(s)))

RECURSIVE SelectPos(_, _, _)
\* the positions i >= from of s, ascending, whose element is in the set keep
SelectPos(s, keep, from) ==
    IF from > Len(s) THEN <<>>
    ELSE IF s[from] \in keep THEN <<from>> \o SelectPos(s, keep, from + 1)
    ELSE SelectPos(s, keep, from + 1)

\* ---------------------------------------------------------------- floats
Abs(i) == IF i < 0 THEN -i ELSE i

Sign(i) == IF i < 0 THEN -1 ELSE IF i > 0 THEN 1 ELSE 0

RECURSIVE GCD(_, _)
GCD(a, b) == IF b = 0 THEN a ELSE GCD(b, a % b)

NaN == [n |-> 0, d |-> 0]

PosInf == [n |-> 1, d |-> 0]

NegInf == [n |-> -1, d |-> 0]

\* the float n/d, d > 0
Fin(n, d) == LET g == GCD(Abs(n), d) IN [n |-> n \div g, d |-> d \div g]

F(i) == Fin(i, 1)

IsNaN(x) == x.d = 0 /\ x.n = 0

IsFin(x) == x.d > 0

\* -1, 0, 1 for -inf, a finite value, +inf
Class(x) == IF x.d > 0 THEN 0 ELSE x.n

\* x < y on floats; false when either is NaN
FLess(x, y) ==
    /\ ~IsNaN(x)
    /\ ~IsNaN(y)
    /\ IF Class(x) # Class(y) THEN Class(x) < Class(y)
       ELSE Class(x) = 0 /\ x.n * y.d < y.n * x.d

\* x == y on floats; false when either is NaN
FEq(x, y) == ~IsNaN(x) /\ ~IsNaN(y) /\ ~FLess(x, y) /\ ~FLess(y, x)

FNeg(x) == [n |-> -x.n, d |-> x.d]

FAbs(x) == [n |-> Abs(x.n), d |-> x.d]

\* x - y
FSub(x, y) ==
    IF IsNaN(x) \/ IsNaN(y) THEN NaN
    ELSE IF IsFin(x) /\ IsFin(y) THEN Fin(x.n * y.d - y.n * x.d, x.d * y.d)
    ELSE IF IsFin(y) THEN x
    ELSE IF IsFin(x) THEN FNeg(y)
    ELSE IF x = y THEN NaN
    ELSE x

\* x / y for a finite or NaN y: a finite x over 0.0 is +-inf, 0.0 / 0.0 is NaN
FDiv(x, y) ==
    IF IsNaN(x) \/ IsNaN(y) THEN NaN
    ELSE IF y.n = 0 THEN (IF x.n = 0 THEN NaN ELSE [n |-> Sign(x.n), d |-> 0])
    ELSE IF IsFin(x) THEN Fin(x.n * y.d * Sign(y.n), x.d * Abs(y.n))
    ELSE [n |-> x.n * Sign(y.n), d |-> 0]

\* Series.clip(lower=0): NaN stays NaN
ClipLower0(x) == IF IsNaN(x) THEN NaN ELSE IF x.n < 0 THEN F(0) ELSE x

\* Series.fillna(0)
FillNa0(x) == IF IsNaN(x) THEN F(0) ELSE x

Pow10(p) == IF p = 0 THEN 1 ELSE IF p = 1 THEN 10 ELSE 100

RECURSIVE Log2Floor(_, _)
\* floor(log2(n / d)) for n > 0, d > 0: the binade of n/d
Log2Floor(n, d) ==
    IF n >= d THEN (IF 2 * d <= n THEN 1 + Log2Floor(n, 2 * d) ELSE 0)
    ELSE Log2Floor(2 * n, d) - 1

RECURSIVE Pow2Mod(_, _)
\* 2^e mod c
Pow2Mod(e, c) == IF e = 0 THEN 1 % c ELSE (2 * Pow2Mod(e - 1, c)) % c

RintHalfwayUp(j, c) == (j + 1) \div 2

(* rint(x * 10^p) in binary64 for the float x nearest to j/c, j odd and     *)
(* c = 2 * 10^p, so that j/c * 10^p is j/2, halfway between two integers.   *)
(* x = M / 2^e with the 53-bit M nearest to j * 2^e / c; x * 10^p is off    *)
(* j/2 by D / 2^(e+1), D = c * M - j * 2^e.  The product rounds to j/2, and *)
(* rint takes the tie to the even integer, when D is within 2^gap, gap the  *)
(* binades between x and j/2 (half of it below j/2 = 0.5, a power of 2);    *)
(* otherwise rint goes to the side x is off to.                             *)
RintHalfway(j, c) ==
    LET k == (j - 1) \div 2
        s == Log2Floor(j, c)
        gap == Log2Floor(j, 2) - s
        r == (j * Pow2Mod(52 - s, c)) % c
        D == IF 2 * r < c THEN -r ELSE c - r
        below == IF j = 1 /\ gap > 0 THEN 2^(gap - 1) ELSE 2^gap
    IN  IF -below <= D /\ D <= 2^gap THEN (IF k % 2 = 0 THEN k ELSE k + 1)
        ELSE IF D > 0 THEN k + 1
        ELSE k

\* rint(x * 10^p) for the float x nearest to n/d, n >= 0, d > 0
Rint(n, d, p) ==
    LET a == n * Pow10(p)
        q == a \div d
        r == a % d
    IN  IF 2 * r < d THEN q
        ELSE IF 2 * r > d THEN q + 1
        ELSE RintHalfway(2 * q + 1, 2 * Pow10(p))

\* Series.round(p), numpy's round: rint(x * 10^p) / 10^p; inf and NaN pass
\* through
Round(x, p) ==
    IF IsFin(x) THEN Fin(Sign(x.n) * Rint(Abs(x.n), x.d, p), Pow10(p)) ELSE x

\* ------------------------------------------------------------ timestamps
\* datetime.now(timezone.utc).strftime("%Y-%m-%d %H:%M:%S") at tick `now`
strftime(now) == [tick |-> now]

\* a < b as Python compares the two strings: the format has fixed widths, the
\* larger unit first
StrLess(a, b) == a.tick < b.tick

\* pd.to_datetime(t), in seconds since the day's midnight: 1800 a tick
to_datetime(t) == t.tick * 1800

\* ------------------------------------------------- the API's player list
(* What GET bootstrap-static/ answers at tick t is the environment's: two   *)
(* leagues are enumerated, each a function of the tick.                     *)
(* "small" has players 1 and 3, and player 2 at every fourth tick from tick *)
(* 2 on: player 1 is bought slowly, player 3 is sold at 54500 an hour in    *)
(* the first tick and at 57500 an hour after it.                            *)
(* "big" has 22 players: in the first half hour players 1-11 are bought and *)
(* players 12-22 are sold, each at a rate of its own (players 1 and 2 at    *)
(* the same rate); after it only players 10, 11, 21 and 22 still move.      *)
Leagues == {"small", "big"}

ElementIds(w, t) ==
    IF w = "small" THEN (IF t % 4 = 2 THEN <<1, 2, 3>> ELSE <<1, 3>>)
    ELSE [i \in 1..22 |-> i]

\* the rate of "big"'s player i, in units of 3000 transfers a tick
BigRate(i) == IF i <= 2 THEN 1 ELSE IF i <= 11 THEN 2 * i - 3 ELSE 2 * (i - 11)

\* the ticks "big"'s player i has been moving for at tick t
BigTicks(i, t) == IF i \in {10, 11, 21, 22} THEN t ELSE Min(t, 1)

TransfersIn(w, i, t) ==
    IF w = "small"
    THEN (IF i = 1 THEN 1000 + 125 * t * t
          ELSE IF i = 2 THEN 4000 + 27250 * t
          ELSE 300)
    ELSE (IF i <= 11 THEN 3000 * BigRate(i) * BigTicks(i, t) ELSE 0)

TransfersOut(w, i, t) ==
    IF w = "small"
    THEN (IF i = 1 THEN 200
          ELSE IF i = 2 THEN 1000
          ELSE 27250 * Min(t, 1) + 28750 * (t - Min(t, 1)))
    ELSE (IF i >= 12 THEN 3000 * BigRate(i) * BigTicks(i, t) ELSE 0)

\* bootstrap['elements'] with the columns the collector keeps; now_cost is
\* the API's integer, in tenths of a million
Elements(w, t) ==
    LET ids == ElementIds(w, t)
    IN  [k \in DOMAIN ids |->
            [id |-> ids[k],
             first_name |-> "Player",
             second_name |-> ids[k],
             now_cost |-> 40 + 5 * ids[k],
             transfers_in_event |-> TransfersIn(w, ids[k], t),
             transfers_out_event |-> TransfersOut(w, ids[k], t),
             selected_by_percent |-> ids[k]]]

\* ------------------------------------------------------------------ state
VARIABLES
    clock,        \* the UTC time, in ticks of 30 minutes
    league,       \* the league the API serves
    csvFile,      \* fpl_transfers_log.csv: [exists, lines]
    predFile,     \* fpl_predictions_log.csv: [exists, lines]
    summaryFile,  \* fpl_summary.csv: [exists, lines]
    created,      \* the tick fpl_transfers_log.csv was created at by a
                  \* collector, -1 when none has created it
    nTracks,      \* collector runs so far
    nRuns,        \* analyzer runs that have written to the prediction log
    run           \* the analyzer run that has just ended: how it ended and its
                  \* data frames, gone when the collector runs

vars == <<clock, league, csvFile, created, predFile, summaryFile, nTracks, nRuns, run>>

NoFile == [exists |-> FALSE, lines |-> <<>>]

Header(cols) == [kind |-> "header", cols |-> cols]

\* DataFrame.to_csv(path, index=False): the file is truncated, the header
\* line and the rows are written
WriteCsv(cols, rows) == [exists |-> TRUE, lines |-> <<Header(cols)>> \o rows]

\* DataFrame.to_csv(path, mode="a", header=False, index=False)
AppendCsv(file, rows) == [exists |-> TRUE, lines |-> file.lines \o rows]

\* pd.read_csv(path): the lines after the header line
ReadCsv(file) == Tail(file.lines)

\* no analyzer run has just ended
NotRun ==
    [outcome |-> "none", csv_rows |-> 0, distinct |-> 0, t1 |-> strftime(0),
     t2 |-> strftime(0), old_ids |-> {}, new_ids |-> {}, hours_elapsed |-> NaN,
     merged |-> <<>>, ts |-> strftime(0), predictions |-> <<>>,
     log_existed |-> FALSE, summary |-> <<>>]

\* -------------------------------------------------------------- collector
CSV_COLUMNS ==
    <<"timestamp", "id", "first_name", "second_name", "now_cost",
      "transfers_in_event", "transfers_out_event", "selected_by_percent">>

\* the data frame `players` after lines 27-36: the timestamp column added,
\* now_cost divided by 10
Players(elements, ts) ==
    [k \in DOMAIN elements |->
        [kind |-> "row",
         timestamp |-> ts,
         id |-> elements[k].id,
         first_name |-> elements[k].first_name,
         second_name |-> elements[k].second_name,
         now_cost |-> FDiv(F(elements[k].now_cost), F(10)),
         transfers_in_event |-> elements[k].transfers_in_event,
         transfers_out_event |-> elements[k].transfers_out_event,
         selected_by_percent |-> elements[k].selected_by_percent]]

(* What line 39, os.path.isfile(CSV_FILE), may have answered in a run that  *)
(* read the clock at tick `stamped` and writes now: what is true now, and   *)
(* False also when the file was created no earlier than that tick, by a run *)
(* that wrote between this run's lines 39 and 40.                           *)
IsFile(stamped) ==
    {csvFile.exists} \cup (IF created >= stamped THEN {FALSE} ELSE {})

(* One run of track_transfers.py, as of the moment it writes (line 40 or    *)
(* 43).  The script waits for the API at line 17, reads the clock at line   *)
(* 27 and looks for the file at line 39; nothing keeps time or other runs   *)
(* from passing in between, and nothing keeps a run from starting in the    *)
(* tick of the run before it.  The run got the API's answer at some tick    *)
(* `fetched`, read the clock at a tick `stamped` not before it, and line 39 *)
(* answered `found`.  Not finding the file, line 40 writes it anew with its *)
(* header (on top of what another run wrote meanwhile); line 43 appends.    *)
Track ==
    /\ nTracks < MaxSnapshots
    /\ \E fetched \in 0..clock : \E stamped \in fetched..clock : \E found \in IsFile(stamped) :
          LET players == Players(Elements(league, fetched), strftime(stamped))
          IN  csvFile' = IF ~found
                         THEN WriteCsv(CSV_COLUMNS, players)
                         ELSE AppendCsv(csvFile, players)
    /\ created' = IF csvFile.exists THEN created ELSE clock
    /\ nTracks' = nTracks + 1
    /\ run' = NotRun
    /\ UNCHANGED <<clock, league, predFile, summaryFile, nRuns>>

\* time passes
Tick ==
    /\ clock < MaxClock
    /\ clock' = clock + 1
    /\ UNCHANGED <<league, csvFile, created, predFile, summaryFile, nTracks, nRuns, run>>

\* ------------------------------------------------- analyzer: the snapshots
\* df["timestamp"].unique() after latest_times.sort(): the distinct timestamp
\* strings in ascending string order
latest_times(df) ==
    LET S == {df[i].timestamp : i \in DOMAIN df}
    IN  [k \in 1..Cardinality(S) |->
            CHOOSE t \in S : Cardinality({u \in S : StrLess(u, t)}) = k - 1]

\* df[df["timestamp"] == t].set_index("id")
Snapshot(df, t) == SelectSeq(df, LAMBDA r : r.timestamp = t)

RECURSIVE Flatten(_)
Flatten(ss) == IF ss = <<>> THEN <<>> ELSE Head(ss) \o Flatten(Tail(ss))

(* df2.join(df1, lsuffix="_new", rsuffix="_old"): join's default is a left  *)
(* join on the index, in df2's row order.  A row of df2 gives one row for   *)
(* each row of df1 of its id, in df1's order (an id is listed twice in a    *)
(* snapshot that two collector runs stamped alike), and one row with NaN in *)
(* the _old columns when df1 has no row of its id.                          *)
Join(df2, df1) ==
    Flatten([k \in DOMAIN df2 |->
        LET new == df2[k]
            olds == SelectSeq(df1, LAMBDA r : r.id = new.id)
            Row(in_old, out_old) ==
                [id |-> new.id,
                 first_name_new |-> new.first_name,
                 second_name_new |-> new.second_name,
                 now_cost_new |-> new.now_cost,
                 transfers_in_event_new |-> F(new.transfers_in_event),
                 transfers_out_event_new |-> F(new.transfers_out_event),
                 transfers_in_event_old |-> in_old,
                 transfers_out_event_old |-> out_old]
        IN  IF olds = <<>> THEN <<Row(NaN, NaN)>>
            ELSE [j \in DOMAIN olds |->
                     Row(F(olds[j].transfers_in_event), F(olds[j].transfers_out_event))]])

HoursElapsedWhole(t1, t2) ==
    F((to_datetime(t2) - to_datetime(t1)) \div SECONDS_PER_HOUR)

\* (t2_dt - t1_dt).total_seconds() / 3600
HoursElapsed(t1, t2) ==
    FDiv(F(to_datetime(t2) - to_datetime(t1)), F(SECONDS_PER_HOUR))

\* ---------------------------------------------------- analyzer: the deltas
RiseProgress(net_delta_per_hr) ==
    Round(FDiv(ClipLower0(net_delta_per_hr), F(THRESHOLD)), 2)

DropProgressUnsigned(net_delta_per_hr) ==
    Round(FDiv(FAbs(net_delta_per_hr), F(THRESHOLD)), 2)

DropProgress(net_delta_per_hr) ==
    Round(FDiv(ClipLower0(FNeg(net_delta_per_hr)), F(THRESHOLD)), 2)

\* the columns lines 50-77 add to one row of merged
Deltas(m, hours_elapsed) ==
    LET delta_in == FSub(m.transfers_in_event_new, m.transfers_in_event_old)
        delta_out == FSub(m.transfers_out_event_new, m.transfers_out_event_old)
        net_delta == FSub(delta_in, delta_out)
        net_delta_per_hr == FDiv(net_delta, hours_elapsed)
    IN  [id |-> m.id,
         transfers_in_event_new |-> m.transfers_in_event_new,
         transfers_out_event_new |-> m.transfers_out_event_new,
         transfers_in_event_old |-> m.transfers_in_event_old,
         transfers_out_event_old |-> m.transfers_out_event_old,
         delta_in |-> delta_in,
         delta_out |-> delta_out,
         net_delta |-> net_delta,
         delta_in_per_hr |-> FDiv(delta_in, hours_elapsed),
         delta_out_per_hr |-> FDiv(delta_out, hours_elapsed),
         net_delta_per_hr |-> net_delta_per_hr,
         rise_progress |-> RiseProgress(net_delta_per_hr),
         drop_progress |-> DropProgress(net_delta_per_hr),
         name |-> <<m.first_name_new, " ", m.second_name_new>>,
         now_cost |-> m.now_cost_new]

\* merged after line 77, for the two latest snapshots of df
Merged(df) ==
    LET times == latest_times(df)
        t1 == times[Len(times) - 1]
        t2 == times[Len(times)]
        joined == Join(Snapshot(df, t2), Snapshot(df, t1))
    IN  [k \in DOMAIN joined |-> Deltas(joined[k], HoursElapsed(t1, t2))]

\* ---------------------------------------------------- analyzer: the ranker
\* the positions of frame whose value in col is not NaN, by descending value,
\* equal values in row order (a stable sort)
NLargestOrder(frame, col) ==
    LET vals == [i \in DOMAIN frame |-> frame[i][col]]
        P == {i \in DOMAIN frame : ~IsNaN(vals[i])}
        Before(j, i) ==
            \/ FLess(vals[i], vals[j])
            \/ FEq(vals[i], vals[j]) /\ j < i
        rank == [i \in P |-> Cardinality({j \in P : Before(j, i)}) + 1]
    IN  [k \in 1..Cardinality(P) |-> CHOOSE i \in P : rank[i] = k]

RECURSIVE SortValuesOrders(_, _, _)
(* sort_values(ascending=False) on column col of the rows S of frame: the   *)
(* default kind "quicksort" is not stable, so rows of equal value come in   *)
(* any order.  Rows equal in every column give the same frame whichever is  *)
(* first: the earliest of them is taken.                                    *)
SortValuesOrders(frame, col, S) ==
    IF S = {} THEN {<<>>}
    ELSE LET top == {i \in S : \A j \in S : ~FLess(frame[i][col], frame[j][col])}
             firsts == {i \in top : \A j \in top : j < i => frame[j] # frame[i]}
         IN  UNION {{<<m>> \o rest : rest \in SortValuesOrders(frame, col, S \ {m})} :
                       m \in firsts}

(* frame.nlargest(n, col), keep="first": the possible results.              *)
(* n >= len(frame) is pandas' slow path,                                    *)
(* sort_values(ascending=False).head(n); otherwise the n largest are taken  *)
(* with a stable sort.  Rows whose value is NaN come last, in row order.    *)
NLargest(frame, n, col) ==
    LET vals == [i \in DOMAIN frame |-> frame[i][col]]
        P == {i \in DOMAIN frame : ~IsNaN(vals[i])}
        nans == SelectPos(vals, {NaN}, 1)
        orders == IF n >= Len(frame) THEN SortValuesOrders(frame, col, P)
                  ELSE {NLargestOrder(frame, col)}
    IN  {[k \in 1..Min(n, Len(frame)) |-> frame[(o \o nans)[k]]] : o \in orders}

\* top_risers after lines 80-82 and 95-96; concat gives a riser row NaN in
\* the faller's column drop_progress
TopRisers(merged, ts) ==
    {[k \in DOMAIN top |->
         [id |-> top[k].id,
          name |-> top[k].name,
          now_cost |-> top[k].now_cost,
          net_delta_per_hr |-> top[k].net_delta_per_hr,
          rise_progress |-> top[k].rise_progress,
          timestamp |-> ts,
          type |-> "riser",
          drop_progress |-> NaN]] : top \in NLargest(merged, TOP_N, "rise_progress")}

\* top_droppers after lines 83-85 and 98-99
TopDroppers(merged, ts) ==
    {[k \in DOMAIN top |->
         [id |-> top[k].id,
          name |-> top[k].name,
          now_cost |-> top[k].now_cost,
          net_delta_per_hr |-> top[k].net_delta_per_hr,
          rise_progress |-> NaN,
          timestamp |-> ts,
          type |-> "faller",
          drop_progress |-> top[k].drop_progress]] : top \in NLargest(merged, TOP_N, "drop_progress")}

\* pd.concat([top_risers, top_droppers]): the possible results
Predictions(merged, ts) ==
    {r \o d : r \in TopRisers(merged, ts), d \in TopDroppers(merged, ts)}

\* ------------------------------------------- analyzer: the prediction log
PRED_COLUMNS ==
    <<"name", "now_cost", "net_delta_per_hr", "rise_progress", "timestamp",
      "type", "drop_progress">>

\* the lines to_csv(index=False) writes for predictions: the id index is not
\* written
PredLines(predictions) ==
    [k \in DOMAIN predictions |->
        [kind |-> "row",
         name |-> predictions[k].name,
         now_cost |-> predictions[k].now_cost,
         net_delta_per_hr |-> predictions[k].net_delta_per_hr,
         rise_progress |-> predictions[k].rise_progress,
         timestamp |-> predictions[k].timestamp,
         type |-> predictions[k].type,
         drop_progress |-> predictions[k].drop_progress]]

WritePredictionsOverwrite(file, predictions) ==
    WriteCsv(PRED_COLUMNS, PredLines(predictions))

\* lines 106-111: create the log with its header, or append without one
WritePredictions(file, predictions) ==
    IF ~file.exists
    THEN WriteCsv(PRED_COLUMNS, PredLines(predictions))
    ELSE AppendCsv(file, PredLines(predictions))

\* ------------------------------------------------- analyzer: the summary
SUMMARY_COLUMNS == <<"Name", "Price", "Hourly Change", "Progress", "Timestamp">>

\* summary after lines 114-128, still indexed by id
SummaryFrame(predictions) ==
    [k \in DOMAIN predictions |->
        [id |-> predictions[k].id,
         Name |-> predictions[k].name,
         Price |-> predictions[k].now_cost,
         Hourly_Change |-> predictions[k].net_delta_per_hr,
         Progress |-> FSub(FillNa0(predictions[k].rise_progress),
                           FillNa0(predictions[k].drop_progress)),
         Timestamp |-> predictions[k].timestamp]]

HasDuplicates(labels) ==
    \E i, j \in DOMAIN labels : i # j /\ labels[i] = labels[j]

RECURSIVE SortedOrders(_, _)
(* sort_values(ascending=False) sorts with the default kind "quicksort",    *)
(* which is not stable: every arrangement of the positions S by descending  *)
(* key is a possible result (rows of equal key in any order).              *)
SortedOrders(keys, S) ==
    IF S = {} THEN {<<>>}
    ELSE LET top == {i \in S : \A j \in S : ~FLess(keys[i], keys[j])}
         IN  UNION {{<<m>> \o rest : rest \in SortedOrders(keys, S \ {m})} : m \in top}

\* the keys in descending order: the same sequence for every sorted order
KeysDescending(keys) ==
    LET frame == [i \in DOMAIN keys |-> [key |-> keys[i]]]
        order == NLargestOrder(frame, "key")
    IN  [k \in DOMAIN order |-> keys[order[k]]]

(* Some sorted order carries every position's own label back to it: for     *)
(* each key and label, as many rows of that key and label as there are      *)
(* positions of that label in the block the key's rows are sorted into.     *)
CanKeepLabels(labels, keys) ==
    LET desc == KeysDescending(keys)
    IN  \A i \in DOMAIN keys :
            Cardinality({j \in DOMAIN keys : FEq(desc[j], keys[i]) /\ labels[j] = labels[i]})
          = Cardinality({j \in DOMAIN keys : FEq(keys[j], keys[i]) /\ labels[j] = labels[i]})

\* some sorted order yields another label sequence than the frame's own
CanChangeLabels(labels, keys) ==
    \/ ~CanKeepLabels(labels, keys)
    \/ \E i, j \in DOMAIN keys : FEq(keys[i], keys[j]) /\ labels[i] # labels[j]

(* line 131, summary.reindex(summary["Progress"].abs().sort_values(         *)
(* ascending=False).index): the possible results.  reindex returns a copy   *)
(* of the frame as it is when the new index equals the frame's own index;   *)
(* otherwise it raises ValueError when the frame's index holds a label      *)
(* twice, and otherwise gives the rows in the new index's order.            *)
Reindex(summary) ==
    LET labels == [i \in DOMAIN summary |-> summary[i].id]
        keys == [i \in DOMAIN summary |-> FAbs(summary[i].Progress)]
    IN  IF HasDuplicates(labels)
        THEN (IF CanKeepLabels(labels, keys)
              THEN {[error |-> FALSE, frame |-> summary]} ELSE {})
             \cup (IF CanChangeLabels(labels, keys)
                   THEN {[error |-> TRUE, frame |-> <<>>]} ELSE {})
        ELSE {[error |-> FALSE, frame |-> [k \in DOMAIN summary |-> summary[p[k]]]] :
                 p \in SortedOrders(keys, DOMAIN summary)}

\* lines 132-140: head(20), the three roundings, and the lines to_csv writes
SummaryLines(frame) ==
    LET top == Head_n(frame, SUMMARY_N)
    IN  [k \in DOMAIN top |->
            [kind |-> "row",
             Name |-> top[k].Name,
             Price |-> Round(top[k].Price, 1),
             Hourly_Change |-> Round(top[k].Hourly_Change, 0),
             Progress |-> Round(top[k].Progress, 2),
             Timestamp |-> top[k].Timestamp]]

\* ------------------------------------------------------ analyzer: one run
\* how a run ends: at the end of the script, or with the exception raised
OK == "ok"

FileNotFound == "FileNotFoundError"

TooFewSnapshots == "ValueError: Need at least two snapshots to analyze trends."

DuplicateLabels == "ValueError: cannot reindex on an axis with duplicate labels"

\* what a run that stops before line 39 leaves in `run`
Stopped(outcome, df) ==
    [outcome |-> outcome,
     csv_rows |-> Len(df),
     distinct |-> Len(latest_times(df)),
     t1 |-> strftime(0),
     t2 |-> strftime(0),
     old_ids |-> {},
     new_ids |-> {},
     hours_elapsed |-> NaN,
     merged |-> <<>>,
     ts |-> strftime(0),
     predictions |-> <<>>,
     log_existed |-> predFile.exists,
     summary |-> <<>>]

\* what a run that reaches line 102 leaves in `run`
Analyzed(outcome, df, merged, predictions, summary) ==
    LET times == latest_times(df)
        t1 == times[Len(times) - 1]
        t2 == times[Len(times)]
    IN  [outcome |-> outcome,
         csv_rows |-> Len(df),
         distinct |-> Len(times),
         t1 |-> t1,
         t2 |-> t2,
         old_ids |-> {r.id : r \in Range(Snapshot(df, t1))},
         new_ids |-> {r.id : r \in Range(Snapshot(df, t2))},
         hours_elapsed |-> HoursElapsed(t1, t2),
         merged |-> merged,
         ts |-> strftime(clock),
         predictions |-> predictions,
         log_existed |-> predFile.exists,
         summary |-> summary]

\* line 30: pd.read_csv raises FileNotFoundError when the collector never ran
AnalyzeNoStore ==
    /\ ~csvFile.exists
    /\ run' = Stopped(FileNotFound, <<>>)
    /\ UNCHANGED <<predFile, summaryFile, nRuns>>

AnalyzeTooFewAfterWrite ==
    /\ csvFile.exists
    /\ Len(latest_times(ReadCsv(csvFile))) < 2
    /\ run' = Stopped(TooFewSnapshots, ReadCsv(csvFile))
    /\ predFile' = WritePredictions(predFile, <<>>)
    /\ UNCHANGED <<summaryFile, nRuns>>

\* lines 33-36: fewer than two distinct timestamps
AnalyzeTooFew ==
    /\ csvFile.exists
    /\ Len(latest_times(ReadCsv(csvFile))) < 2
    /\ run' = Stopped(TooFewSnapshots, ReadCsv(csvFile))
    /\ UNCHANGED <<predFile, summaryFile, nRuns>>

\* lines 106-131: the log is written, then reindex raises
RaiseAfterLog(df, merged, predictions) ==
    /\ predFile' = WritePredictions(predFile, predictions)
    /\ run' = Analyzed(DuplicateLabels, df, merged, predictions, <<>>)
    /\ UNCHANGED summaryFile

\* lines 106-141: the log is written, then the summary file
Finish(df, merged, predictions, frame) ==
    /\ predFile' = WritePredictions(predFile, predictions)
    /\ summaryFile' = WriteCsv(SUMMARY_COLUMNS, SummaryLines(frame))
    /\ run' = Analyzed(OK, df, merged, predictions, SummaryLines(frame))

\* lines 39-141: the run over two snapshots, to the end of the script or to
\* the ValueError of reindex
AnalyzeTwoSnapshots ==
    /\ nRuns < MaxRuns
    /\ nRuns' = nRuns + 1
    /\ csvFile.exists
    /\ Len(latest_times(ReadCsv(csvFile))) >= 2
    /\ LET df == ReadCsv(csvFile)
           merged == Merged(df)
       IN  \E predictions \in Predictions(merged, strftime(clock)) :
              \E r \in Reindex(SummaryFrame(predictions)) :
                 IF r.error
                 THEN RaiseAfterLog(df, merged, predictions)
                 ELSE Finish(df, merged, predictions, r.frame)

\* one run of analyze_transfers.py, from line 30 to where it ends
Analyze ==
    /\ \/ AnalyzeNoStore
       \/ AnalyzeTooFew
       \/ AnalyzeTwoSnapshots
    /\ UNCHANGED <<clock, league, csvFile, created, nTracks>>

\* ------------------------------------------------------- the state machine
Init ==
    /\ clock = 0
    /\ league \in Leagues
    /\ csvFile = NoFile
    /\ predFile = NoFile
    /\ summaryFile = NoFile
    /\ created = -1
    /\ nTracks = 0
    /\ nRuns = 0
    /\ run = NotRun

Next == Tick \/ Track \/ Analyze

Spec == Init /\ [][Next]_vars

\* ================================================================= claims
\* a run that got as far as the prediction records (line 102)
Ranked(r) == r.outcome \in {OK, DuplicateLabels}

\* the data rows of a file
Rows(file) == IF file.exists THEN Tail(file.lines) ELSE <<>>

\* the distinct timestamps of the store, counted from the file's lines
StoreTimestamps == {l.timestamp : l \in Range(Rows(csvFile))}

\* the step is one run of the analyzer
AnalyzerStep == run'.outcome # "none" /\ (run' # run \/ predFile' # predFile)

\* the player a name belongs to (names are "Player <id>")
IdOfName(name) == name[3]

\* a row of merged that has both sides of the join
InBoth(m) == ~IsNaN(m.transfers_in_event_old)

\* C1: every analyzer run either completes and updates both the prediction
\* log and the summary file, or fails with neither of them written.
C1_AllOrNothing ==
    [][AnalyzerStep =>
          \/ /\ run'.outcome = OK
             /\ predFile' # predFile
             /\ summaryFile'.exists
             /\ Rows(summaryFile') = run'.summary
          \/ /\ run'.outcome # OK
             /\ predFile' = predFile
             /\ summaryFile' = summaryFile]_vars

\* C2: a run over a store with fewer than 2 distinct timestamps ends with the
\* "need at least two snapshots" error and leaves the prediction log and the
\* summary file as they were.
C2_TooFewSnapshots ==
    [][(AnalyzerStep /\ csvFile.exists /\ Cardinality(StoreTimestamps) < 2) =>
          /\ run'.outcome = TooFewSnapshots
          /\ predFile' = predFile
          /\ summaryFile' = summaryFile]_vars

\* C2 witness: a run stopped on a store that holds one snapshot, and no output
\* file exists.
C2_Witness ==
    /\ run.outcome = TooFewSnapshots
    /\ run.distinct = 1
    /\ run.csv_rows > 0
    /\ ~predFile.exists
    /\ ~summaryFile.exists

C4_InnerJoin ==
    LET both == run.old_ids \cap run.new_ids
    IN  /\ \A i \in DOMAIN run.merged : run.merged[i].id \in both
        /\ \A i \in DOMAIN run.predictions :
              /\ run.predictions[i].id \in both
              /\ IdOfName(PredLines(run.predictions)[i].name) \in both
        /\ \A i \in DOMAIN run.summary : IdOfName(run.summary[i].Name) \in both

\* the step is the second of two runs in succession over the same store, the
\* first one having found no prediction log: `run` is the first run (a step
\* of the collector in between would have cleared it)
SecondRun ==
    /\ AnalyzerStep
    /\ Ranked(run)
    /\ ~run.log_existed
    /\ Ranked(run')

\* C5: of two runs in succession over the same store, the first one finding
\* no prediction log, each completes, the second leaves the summary file as
\* the first wrote it, and each grows the log by 20 rows.
C5_TwoRuns ==
    [][SecondRun =>
          /\ run.outcome = OK
          /\ run'.outcome = OK
          /\ summaryFile.exists
          /\ summaryFile' = summaryFile
          /\ Len(Rows(predFile)) = 2 * TOP_N
          /\ Len(Rows(predFile')) = 4 * TOP_N]_vars

\* C6: after every analyzer run the summary file holds min(20, the run's
\* prediction records) rows, and never more than 20.
C6_SummaryRowCount ==
    /\ Len(Rows(summaryFile)) <= SUMMARY_N
    /\ Ranked(run) =>
          Len(Rows(summaryFile)) = Min(SUMMARY_N, Len(run.predictions))

\* C7: the prediction log is append-only with a single header: the run that
\* finds no log writes the header line and its records, a later run appends
\* its records and nothing else, and no other step changes the log.
C7_AppendOnly ==
    [][/\ (AnalyzerStep /\ Ranked(run')) =>
             /\ predFile'.exists
             /\ predFile'.lines =
                    (IF predFile.exists THEN predFile.lines ELSE <<Header(PRED_COLUMNS)>>)
                        \o PredLines(run'.predictions)
       /\ ~(AnalyzerStep /\ Ranked(run')) => predFile' = predFile
       /\ predFile'.exists =>
             /\ predFile'.lines[1].kind = "header"
             /\ \A i \in 2..Len(predFile'.lines) : predFile'.lines[i].kind = "row"]_vars

\* C7 witness: a run found the log of an earlier run and appended to it.
C7_Witness ==
    /\ Ranked(run)
    /\ run.log_existed
    /\ Len(Rows(predFile)) > Len(run.predictions)

\* C8: in every delta record a positive net_delta_per_hr goes with a
\* drop_progress of 0 and a negative one with a rise_progress of 0.
C8_MutuallyExclusive ==
    \A i \in DOMAIN run.merged :
        LET m == run.merged[i]
        IN  /\ FLess(F(0), m.net_delta_per_hr) => FEq(m.drop_progress, F(0))
            /\ FLess(m.net_delta_per_hr, F(0)) => FEq(m.rise_progress, F(0))

\* C8 witness: one run with a rising record of positive rise_progress and a
\* falling record of positive drop_progress.
C8_Witness ==
    /\ \E i \in DOMAIN run.merged :
          /\ FLess(F(0), run.merged[i].net_delta_per_hr)
          /\ FLess(F(0), run.merged[i].rise_progress)
    /\ \E i \in DOMAIN run.merged :
          /\ FLess(run.merged[i].net_delta_per_hr, F(0))
          /\ FLess(F(0), run.merged[i].drop_progress)

\* the scenario of C9: 1000 in and 200 out at t1, 1500 in and 200 out at t2,
\* one hour later
Scenario(m) ==
    /\ m.transfers_in_event_old = F(1000)
    /\ m.transfers_out_event_old = F(200)
    /\ m.transfers_in_event_new = F(1500)
    /\ m.transfers_out_event_new = F(200)
    /\ run.hours_elapsed = F(1)

\* the arithmetic of C9 on one delta record, the hours finite and not 0
DeltaArithmetic(m, h) ==
    /\ m.delta_in = F(m.transfers_in_event_new.n - m.transfers_in_event_old.n)
    /\ m.delta_out = F(m.transfers_out_event_new.n - m.transfers_out_event_old.n)
    /\ m.net_delta = F(m.delta_in.n - m.delta_out.n)
    /\ IsFin(m.net_delta_per_hr)
    /\ m.net_delta_per_hr.n * h.n = m.net_delta.n * h.d * m.net_delta_per_hr.d

\* p is a hundredth nearest to max(0, x) / THRESHOLD: either of the two when
\* the value is halfway between them
IsRounded2(p, x) ==
    /\ IsFin(p)
    /\ 100 % p.d = 0
    /\ LET k == p.n * (100 \div p.d)
           v == IF x.n > 0 THEN x.n ELSE 0
           diff == 2 * k * x.d * THRESHOLD - 200 * v
       IN  Abs(diff) <= x.d * THRESHOLD

\* C9 as stated: the deltas, the hourly rate and the two progress scores of
\* a record of both snapshots follow the formulas, and the scenario gives
\* 500, 0, 500, 500/h, rise_progress 0.01 and drop_progress 0.
C9_Original ==
    \A i \in DOMAIN run.merged :
        LET m == run.merged[i]
        IN  /\ (InBoth(m) /\ FLess(F(0), run.hours_elapsed)) =>
                  /\ DeltaArithmetic(m, run.hours_elapsed)
                  /\ IsRounded2(m.rise_progress, m.net_delta_per_hr)
                  /\ IsRounded2(m.drop_progress, FNeg(m.net_delta_per_hr))
            /\ Scenario(m) =>
                  /\ m.delta_in = F(500)
                  /\ m.delta_out = F(0)
                  /\ m.net_delta = F(500)
                  /\ m.net_delta_per_hr = F(500)
                  /\ m.rise_progress = Fin(1, 100)
                  /\ m.drop_progress = F(0)

\* C9 amended: the same formulas, the rounding to 2 decimals being numpy's,
\* rint(x * 100) / 100 on binary64: a nearest hundredth, and for a value
\* halfway between two hundredths the one the double x * 100 falls to (the
\* even one when x * 100 is exactly halfway): 54500/h gives 0.55 and 57500/h
\* gives 0.57; the scenario gives 500, 0, 500, 500/h, rise_progress 0.0
\* (0.005 * 100 is exactly 0.5, which rint takes to 0) and drop_progress 0.
C9_Deltas ==
    \A i \in DOMAIN run.merged :
        LET m == run.merged[i]
        IN  /\ (InBoth(m) /\ FLess(F(0), run.hours_elapsed)) =>
                  /\ DeltaArithmetic(m, run.hours_elapsed)
                  /\ IsRounded2(m.rise_progress, m.net_delta_per_hr)
                  /\ IsRounded2(m.drop_progress, FNeg(m.net_delta_per_hr))
            /\ m.net_delta_per_hr = F(-54500) => m.drop_progress = Fin(55, 100)
            /\ m.net_delta_per_hr = F(-57500) => m.drop_progress = Fin(57, 100)
            /\ Scenario(m) =>
                  /\ m.delta_in = F(500)
                  /\ m.delta_out = F(0)
                  /\ m.net_delta = F(500)
                  /\ m.net_delta_per_hr = F(500)
                  /\ m.rise_progress = F(0)
                  /\ m.drop_progress = F(0)

\* C9 witness: a run whose delta records hold the scenario's record.
C9_Witness ==
    \E i \in DOMAIN run.merged :
        /\ Scenario(run.merged[i])
        /\ run.merged[i].net_delta_per_hr = F(500)

\* list is the top TOP_N of the records D by column col: min(10, |D|) records
\* of D, by descending score, equal scores in D's order, no record left out
\* that would come before a listed one
IsTop(list, D, col) ==
    LET Pos(id) == CHOOSE i \in DOMAIN D : D[i].id = id
        Ahead(a, b) ==
            \/ FLess(b[col], a[col])
            \/ FEq(a[col], b[col]) /\ Pos(a.id) < Pos(b.id)
        listed == {list[k].id : k \in DOMAIN list}
    IN  /\ Len(list) = Min(TOP_N, Len(D))
        /\ \A k \in DOMAIN list :
              \E i \in DOMAIN D : D[i].id = list[k].id /\ FEq(D[i][col], list[k][col])
        /\ \A k, l \in DOMAIN list : k < l => Ahead(list[k], list[l])
        /\ \A i \in DOMAIN D :
              D[i].id \notin listed => \A k \in DOMAIN list : Ahead(list[k], D[i])

\* C10: the riser list is the min(10, number of delta records) delta records
\* of largest rise_progress, descending, equal scores in the new snapshot's
\* order; the faller list likewise by drop_progress; a delta record being a
\* player of both snapshots.
C10_Ranker ==
    Ranked(run) =>
        LET D == SelectSeq(run.merged, InBoth)
            risers == SelectSeq(run.predictions, LAMBDA r : r.type = "riser")
            fallers == SelectSeq(run.predictions, LAMBDA r : r.type = "faller")
        IN  /\ IsTop(risers, D, "rise_progress")
            /\ IsTop(fallers, D, "drop_progress")

====
